---------------------------- MODULE Spec2Model ----------------------------
(***************************************************************************)
(* Host-side runtime of luisa_compute (src/luisa_compute/src/runtime.rs):  *)
(* Device / Stream / CommandBuffer / SyncHandle, the asynchronous shader   *)
(* artifact, the resource factory and the kernel-argument encoder.         *)
(*                                                                         *)
(* The module holds several specifications over one set of variables:      *)
(*   Spec           lifetimes of streams, command buffers and sync handles *)
(*   SpecOrder      command buffers filled and committed on two streams    *)
(*   SpecDispatch   kernel dispatches on a buffer, and the buffer's drop   *)
(*   SpecCallback   batches committed with a completion callback           *)
(*   SpecStream     the operations of Stream on a default and an owned one *)
(*   SpecReject     commits whose backend dispatch call is rejected        *)
(*   SpecShader     the background compile task and the resolving threads  *)
(*   SpecShaderFair SpecShader under the scheduling the program runs with  *)
(*   SpecCreate     the two kernel-creation entry points of Device         *)
(*   SpecFactory    the Device factory calls and their failure paths       *)
(*   SpecDevice     the lifetime of the device handle and its streams      *)
(*   SpecEncode     encoding of kernel arguments, tuples and slots         *)
(*   SpecIdentity   equality and hash of Device values                     *)
(*   SpecArgs       the argument records a dispatch command points to      *)
(* A specification leaves the variables of the other parts unchanged.      *)
(***************************************************************************)
EXTENDS Integers, Sequences, FiniteSets, TLC

(* ------------------------------ bounds -------------------------------- *)
MaxHandles == 2
MaxOwnedStreams == 1
MaxCmdBufs == 2
MaxCmds == 2
MaxGrid == 2
MaxThreads == 2
MaxResources == 2
MaxDevices == 2
MaxPatterns == 3
MaxPre == 2
MaxConnections == 3
MaxDeviceValues == 4
MaxEncoders == 2
MaxArgs == 1

HandleIds == 1..MaxHandles            \* Arc<StreamHandle> allocations
StreamIds == 0..MaxOwnedStreams       \* backend stream ids
CbIds     == 1..MaxCmdBufs            \* CommandBuffer values
SyncIds   == CbIds                   \* SyncHandle k is the one committing buffer k returned
BufIds    == {1}                      \* the buffer B kernels are dispatched on
ResIds    == 1..MaxResources          \* resource handles the factory builds

\* DeviceHandle.default_stream: the backend id of the built-in stream.
DefaultStreamId == 0
\* Option::None of SyncHandle.stream (handle ids start at 1).
NoStream == 0

VARIABLES
    (* Spec *)
    handles,      \* HandleIds -> [kind, stream]: the StreamHandle allocations
    streamVal,    \* HandleIds -> BOOLEAN: the caller's Stream value is alive
    cmdBufs,      \* CbIds -> [state, stream, commands, hist]
    syncs,        \* SyncIds -> [state, stream, waits, calls]
    pending,      \* Commands built by dispatch_async, held by the caller
    inflight,     \* CommandCallbackCtx boxes of accepted batches, oldest first
    leaked,       \* boxes of rejected dispatch calls: nothing frees them
    buffers,      \* BufIds -> "none" | "live" | "destroyed"
    bufVal,       \* BufIds -> BOOLEAN: the caller's Buffer value is alive
    calls,        \* the backend calls the last step issued, in order
    received,     \* StreamIds -> the command lists of the dispatch calls, in order
    destroys,     \* StreamIds -> number of destroy_stream calls received
    committed,    \* StreamIds -> records appended by push/extend, in commit order
    lastReturn,   \* the last fallible API call's return: [api, ok]
    panicked,     \* the calling thread is unwinding
    callbacks     \* CbIds -> runs of the callback of the batch committed through it

streamVars == <<handles, streamVal, cmdBufs, syncs, pending, inflight, leaked,
                buffers, bufVal, calls, received, destroys, committed, lastReturn, panicked,
                callbacks>>

VARIABLES
    (* SpecShader *)
    compileOk,    \* the backend's answer to create_shader for the kernel module
    syncKernel,   \* "none" | "created" | "failed": the kernel built in sync mode
    asyncKernel,  \* "none" | "created": the kernel built in async mode
    slot,         \* AsyncShaderArtifact.shader: Option<Result<CreatedShaderInfo>>
    mutex,        \* owner of the artifact's Mutex
    notified,     \* threads parked on the Condvar that notify_all has unparked
    bg,           \* position of the rayon job
    bgResult,     \* the job's local `shader`
    createCalls,  \* mode -> number of backend create_shader calls
    slotWrites,   \* number of assignments to the slot
    thr           \* ThreadIds -> [pc, kernel, op, out, why]

shaderVars == <<compileOk, syncKernel, asyncKernel, slot, mutex, notified, bg,
                bgResult, createCalls, slotWrites, thr>>

VARIABLES
    (* SpecFactory *)
    res           \* ResIds -> [kind, state, filled]: the resource handles built

factoryVars == <<res>>

VARIABLES
    (* SpecDevice *)
    deviceVals    \* number of Device values (the original and its clones) alive

deviceVars == <<deviceVals>>

VARIABLES
    (* SpecEncode *)
    slots,        \* the parameter kinds the kernel declares, in order
    args,         \* the arguments of the last encode call, in order
    encBase,      \* the records the encoder held when that call began
    encoder       \* ArgEncoder.args

encVars == <<slots, args, encBase, encoder>>

VARIABLES
    (* SpecCreate *)
    asyncDefault, \* ShaderBuildOptions::default() asks for a background build
    created       \* entry point -> how its call built the kernel

createVars == <<asyncDefault, created>>

VARIABLES
    (* SpecIdentity *)
    deviceHandles, \* allocation -> [backend, default_stream]: the DeviceHandles
    devices        \* the Device values of the application: [inner, from]

idVars == <<deviceHandles, devices>>

VARIABLES
    (* SpecArgs *)
    heap,         \* address -> the Vec<api::Argument> buffer allocated there
    held,         \* the ShaderDispatchCommands the caller holds, in order
    backendRead   \* what the last backend dispatch call found behind each command

argVars == <<heap, held, backendRead>>

vars == <<streamVars, shaderVars, factoryVars, deviceVars, encVars, createVars, idVars,
          argVars>>

\* What the steps of one part leave alone.
notStream == <<shaderVars, factoryVars, deviceVars, encVars, createVars, idVars, argVars>>
notShader == <<streamVars, factoryVars, deviceVars, encVars, createVars, idVars, argVars>>
notFactory == <<shaderVars, deviceVars, encVars, createVars, idVars, argVars>>
notDevice == <<shaderVars, factoryVars, encVars, createVars, idVars, argVars>>
notEncode == <<streamVars, shaderVars, factoryVars, deviceVars, createVars, idVars, argVars>>
notCreate == <<streamVars, factoryVars, deviceVars, encVars, idVars, argVars>>
notIdentity == <<streamVars, shaderVars, factoryVars, deviceVars, encVars, createVars,
                 argVars>>
notArgs == <<streamVars, shaderVars, factoryVars, deviceVars, encVars, createVars,
             idVars>>

(* ------------------------------ helpers ------------------------------- *)
RECURSIVE SetToSeq(_)
SetToSeq(S) ==
    IF S = {} THEN <<>>
    ELSE LET x == CHOOSE y \in S : \A z \in S : y <= z
         IN <<x>> \o SetToSeq(S \ {x})

RECURSIVE Concat(_)
Concat(ss) == IF ss = <<>> THEN <<>> ELSE Head(ss) \o Concat(Tail(ss))

Call(op, stream, cmds, ok, by) ==
    [op |-> op, stream |-> stream, cmds |-> cmds, ok |-> ok, by |-> by]

NoReturn == [api |-> "none", ok |-> TRUE]
Return(api, ok) == [api |-> api, ok |-> ok]

(* ResourceTracker::new(): a tracker holding no resource reference. *)
ResourceTrackerNew == {}

(* RawShader::dispatch_async on a Sync artifact: the Command record.  `inner`
   is the api::Command (shader handle, argument buffer, dispatch size). *)
SyncShaderHandle == 1
DispatchAsyncCommand(shader, b, size) ==
    [inner |-> [shader |-> shader, arg |-> b, size |-> size],
     tracker |-> ResourceTrackerNew]

(* CommandBuffer::push / CommandBuffer::extend on the Vec<Command>. *)
PushCommandFront(commands, c) == <<c>> \o commands
PushCommand(commands, c) == Append(commands, c)
ExtendCommands(commands, cs) == commands \o cs

(* commit_with_callback line 381: self.commands.iter().map(|c| c.inner). *)
FlattenCommands(commands) == [i \in 1..Len(commands) |-> commands[i].inner]

(* Strong count of an Arc<StreamHandle>: the Stream value, the open command
   buffers and the sync handles that still hold it. *)
HandleRcWithoutSyncHandles(h) ==
    (IF streamVal[h] THEN 1 ELSE 0)
    + Cardinality({c \in CbIds : cmdBufs[c].state = "open" /\ cmdBufs[c].stream = h})
HandleRc(h) ==
    (IF streamVal[h] THEN 1 ELSE 0)
    + Cardinality({c \in CbIds : cmdBufs[c].state = "open" /\ cmdBufs[c].stream = h})
    + Cardinality({k \in SyncIds : syncs[k].state = "live" /\ syncs[k].stream = h})

(* Every Command alive: held by the caller, in an open command buffer, or in a
   callback context the backend has not released yet. *)
LiveCommands ==
    {pending[i] : i \in DOMAIN pending}
    \cup UNION {{cmdBufs[c].commands[i] : i \in DOMAIN cmdBufs[c].commands}
                    : c \in {x \in CbIds : cmdBufs[x].state = "open"}}
    \cup UNION {{inflight[j].commands[i] : i \in DOMAIN inflight[j].commands}
                    : j \in DOMAIN inflight}
    \cup UNION {{x.commands[i] : i \in DOMAIN x.commands} : x \in leaked}

(* Strong count of an Arc<BufferHandle>: the caller's Buffer value and the
   resource trackers of live commands referring to it. *)
BufRc(b) ==
    (IF bufVal[b] THEN 1 ELSE 0)
    + Cardinality({c \in LiveCommands : b \in c.tracker})

(* Strong count of the Arc<DeviceHandle>: the Device values, the Device each
   Stream value and each resource handle carries, the Arc<DeviceHandle> inside
   each StreamHandle still allocated, and the Device inside each kernel. *)
StreamHandlesAlive == {h \in HandleIds : HandleRc(h) > 0}
DeviceRcWithoutStreamHandles ==
    deviceVals
    + Cardinality({h \in HandleIds : streamVal[h]})
    + Cardinality({r \in ResIds : res[r].state = "live"})
    + (IF syncKernel = "created" THEN 1 ELSE 0)
    + (IF asyncKernel = "created" THEN 1 ELSE 0)
DeviceRc ==
    deviceVals
    + Cardinality({h \in HandleIds : streamVal[h]})
    + Cardinality(StreamHandlesAlive)
    + Cardinality({r \in ResIds : res[r].state = "live"})
    + (IF syncKernel = "created" THEN 1 ELSE 0)
    + (IF asyncKernel = "created" THEN 1 ELSE 0)

(* Drop for StreamHandle: the Default arm does nothing, the NonDefault arm
   calls destroy_stream. *)
StreamDropDestroysAny(kind) == kind # "none"
StreamDropDestroys(kind) == kind = "NonDefault"

(* The destroy calls of the reference counts that reach zero in this step:
   Drop for StreamHandle, the buffer handle's drop, and last, once nothing
   holds the device any more, Drop for DeviceHandle, which destroys the
   default stream. *)
DestroyCalls ==
    LET hs == {h \in HandleIds : /\ HandleRc(h) > 0
                                 /\ HandleRc(h)' = 0
                                 /\ StreamDropDestroys(handles[h].kind)}
        bs == {b \in BufIds : BufRc(b) > 0 /\ BufRc(b)' = 0}
    IN [i \in 1..Cardinality(hs) |->
            Call("destroy_stream", handles[SetToSeq(hs)[i]].stream, <<>>, TRUE, 0)]
       \o [i \in 1..Cardinality(bs) |->
            Call("destroy_buffer", SetToSeq(bs)[i], <<>>, TRUE, 0)]
       \o (IF DeviceRc > 0 /\ DeviceRc' = 0
           THEN <<Call("destroy_stream", DefaultStreamId, <<>>, TRUE, 0)>>
           ELSE <<>>)

FreeHandle == CHOOSE h \in HandleIds : handles[h].kind = "none"
             /\ \A g \in HandleIds : handles[g].kind = "none" => h <= g
HasFreeHandle == \E h \in HandleIds : handles[h].kind = "none"
FreeCb == CHOOSE c \in CbIds : cmdBufs[c].state = "none"
             /\ \A d \in CbIds : cmdBufs[d].state = "none" => c <= d
HasFreeCb == \E c \in CbIds : cmdBufs[c].state = "none"
UsedStreams == {handles[h].stream : h \in {g \in HandleIds : handles[g].kind = "NonDefault"}}
HasFreeStream == \E s \in 1..MaxOwnedStreams : s \notin UsedStreams
FreeStream == CHOOSE s \in 1..MaxOwnedStreams : s \notin UsedStreams
             /\ \A t \in 1..MaxOwnedStreams : t \notin UsedStreams => s <= t

NoHandle == [kind |-> "none", stream |-> 0]
NoCb == [state |-> "none", stream |-> 0, commands |-> <<>>, hist |-> <<>>]
NoSync == [state |-> "none", stream |-> NoStream, waits |-> 0, calls |-> 0]

(* --------------------- shader artifact: values ------------------------ *)
ThreadIds == 1..MaxThreads            \* application threads sharing the kernels
KernelOps == {"dispatch", "dispatch_async", "cache_dir"}

\* The artifact's Mutex is unlocked, or held by a thread or by the rayon job.
NoOwner == 0
BgTask == MaxThreads + 1

(* Option<backend::Result<CreatedShaderInfo>>: None, Some(Ok(handle)), Some(Err). *)
NoneSlot == [some |-> FALSE, ok |-> FALSE, handle |-> 0]
SomeSlot(ok, handle) == [some |-> TRUE, ok |-> ok, handle |-> IF ok THEN handle ELSE 0]

(* Backend::create_shader(kernel): the shader object or a backend error. *)
CreateShader(ok) == SomeSlot(ok, SyncShaderHandle)

IdleThread == [pc |-> "idle", kernel |-> "none", op |-> "none", out |-> 0, why |-> "none"]

(* No kernel has been built. *)
ShaderNone(oks) ==
    /\ compileOk \in oks
    /\ syncKernel = "none"
    /\ asyncKernel = "none"
    /\ slot = NoneSlot
    /\ mutex = NoOwner
    /\ notified = {}
    /\ bg = "none"
    /\ bgResult = NoneSlot
    /\ createCalls = [m \in {"Sync", "Async"} |-> 0]
    /\ slotWrites = 0
    /\ thr = [t \in ThreadIds |-> IdleThread]

(* The state after the caller created the streams of hs: handle 1 wraps the
   default stream, handle 2 is a created stream. *)
StreamInit(hs) ==
    /\ handles = [h \in HandleIds |->
                    IF h \notin hs THEN NoHandle
                    ELSE IF h = 1 THEN [kind |-> "Default", stream |-> DefaultStreamId]
                    ELSE [kind |-> "NonDefault", stream |-> h - 1]]
    /\ streamVal = [h \in HandleIds |-> h \in hs]
    /\ cmdBufs = [c \in CbIds |-> NoCb]
    /\ syncs = [k \in SyncIds |-> NoSync]
    /\ pending = <<>>
    /\ inflight = <<>>
    /\ leaked = {}
    /\ buffers = [b \in BufIds |-> "live"]
    /\ bufVal = [b \in BufIds |-> TRUE]
    /\ calls = <<>>
    /\ received = [s \in StreamIds |-> <<>>]
    /\ destroys = [s \in StreamIds |-> 0]
    /\ committed = [s \in StreamIds |-> <<>>]
    /\ lastReturn = NoReturn
    /\ panicked = FALSE
    /\ callbacks = [k \in CbIds |-> 0]
    /\ deviceVals = 1

(* No resource handle has been built. *)
NoRes == [kind |-> "none", state |-> "none", filled |-> FALSE]
FactoryNone == res = [r \in ResIds |-> NoRes]

(* ArgEncoder::new(): no record; no kernel call has been made. *)
ArgEncoderNew == <<>>
EncoderNone ==
    /\ slots = <<>>
    /\ args = <<>>
    /\ encBase = <<>>
    /\ encoder = ArgEncoderNew

(* No entry point has been called; ds holds the values the default build
   options may have. *)
EntryPoints == {"create_kernel", "create_kernel_async"}
CreateNone(ds) ==
    /\ asyncDefault \in ds
    /\ created = [api \in EntryPoints |-> "none"]

(* No device has been opened. *)
AllocIds == 1..MaxConnections
NoDeviceHandle == [backend |-> 0, default_stream |-> 0]
IdentityNone ==
    /\ deviceHandles = [a \in AllocIds |-> NoDeviceHandle]
    /\ devices = <<>>

(* No argument buffer is allocated and the caller holds no command. *)
EncAddrs == 1..MaxEncoders
FreeBlock == [state |-> "free", args |-> <<>>]
ArgsNone ==
    /\ heap = [a \in EncAddrs |-> FreeBlock]
    /\ held = <<>>
    /\ backendRead = <<>>

InitWith(hs) ==
    /\ StreamInit(hs) /\ ShaderNone({TRUE}) /\ FactoryNone /\ EncoderNone
    /\ CreateNone({FALSE}) /\ IdentityNone /\ ArgsNone

(* The state after Device construction: no stream wrapper, no command. *)
Init == InitWith({})

(* ------------------- Spec: streams and command buffers ---------------- *)
(* The command lists the dispatch calls among cs hand to stream s. *)
RECURSIVE Received(_, _)
Received(cs, s) ==
    IF cs = <<>> THEN <<>>
    ELSE (IF Head(cs).op = "dispatch" /\ Head(cs).stream = s
          THEN <<Head(cs).cmds>> ELSE <<>>) \o Received(Tail(cs), s)

BuffersAfter ==
    [b \in BufIds |-> IF buffers[b] = "live" /\ BufRc(b)' = 0
                      THEN "destroyed" ELSE buffers[b]]

(* The boxed context of the batch committed through slot k is with the
   backend; the commit through slot k was accepted. *)
InFlight(k) == \E i \in DOMAIN inflight : inflight[i].by = k
Accepted(k) == syncs[k].state # "none"

(* The trampoline the backend calls when a batch has completed: it takes the
   context out of its box, calls the callback once, and the context with the
   commands is dropped when it returns. *)
TrampolineDropsOnly(k) == 0
TrampolineCalls(k) == 1
CallbacksAfter ==
    [k \in CbIds |->
        IF (InFlight(k) \/ (~Accepted(k) /\ Accepted(k)')) /\ ~InFlight(k)'
        THEN callbacks[k] + TrampolineCalls(k)
        ELSE callbacks[k]]

(* What every step does last: the trampolines of the batches that completed
   in the step have run, and the reference counts that reached zero issue
   their destroy calls after the step's own backend calls cs. *)
FinishCalls(cs) ==
    /\ callbacks' = CallbacksAfter
    /\ buffers' = BuffersAfter
    /\ calls' = cs \o DestroyCalls
    /\ destroys' = [s \in StreamIds |->
            destroys[s] + Cardinality({i \in DOMAIN calls' :
                calls'[i].op = "destroy_stream" /\ calls'[i].stream = s})]
    /\ received' = [s \in StreamIds |-> received[s] \o Received(cs, s)]

Finish(cs) == UNCHANGED notStream /\ FinishCalls(cs)

(* A step that makes no backend call and releases nothing. *)
Quiet ==
    /\ calls' = <<>>
    /\ UNCHANGED <<buffers, received, destroys, callbacks>>
    /\ UNCHANGED notStream

RemoveAt(s, i) == [j \in 1..(Len(s) - 1) |-> IF j < i THEN s[j] ELSE s[j + 1]]

(* synchronize_stream returning success: the stream is drained, so every
   batch the backend accepted on it has completed and its trampoline has run
   (Box::from_raw drops the context). *)
Drained(boxes, s) == SelectSeq(boxes, LAMBDA x : x.stream # s)

(* Box::into_raw(Box::new(ctx)): the commands move into the context. *)
Ctx(s, commands, k) == [stream |-> s, commands |-> commands, by |-> k]

(* The boxed context after the backend dispatch call: an accepted batch is
   in flight until the trampoline runs; nothing in commit_with_callback frees
   the box of a rejected call. *)
HandOff(s, commands, ok, k) ==
    /\ inflight' = IF ok THEN Append(inflight, Ctx(s, commands, k)) ELSE inflight
    /\ leaked' = IF ok THEN leaked ELSE leaked \cup {Ctx(s, commands, k)}

(* SyncHandle { stream: Cell::new(Some(stream.clone())) } *)
NewSyncHandle(h) ==
    [state |-> "live", stream |-> h, waits |-> 0, calls |-> 0]

(* Cell::take: what the cell holds afterwards. *)
AfterTakeKeepsStream(r) == r.stream
AfterTake(r) == NoStream

(* SyncHandle::synchronize on the handle r: stream.take().map(wait).unwrap().
   `waits` counts the synchronize_stream calls the handle issued, `calls` the
   explicit synchronize() calls. *)
SyncWaits(r) == r.stream # NoStream
SyncPanics(r) == r.stream = NoStream
SyncSynchronized(r) ==
    [r EXCEPT !.stream = AfterTake(r),
              !.waits = IF SyncWaits(r) THEN @ + 1 ELSE @,
              !.calls = @ + 1]

(* Drop for SyncHandle: stream.take().map(wait), the result ignored. *)
SyncDropped(r) ==
    [r EXCEPT !.state = "dropped",
              !.stream = AfterTake(r),
              !.waits = IF SyncWaits(r) THEN @ + 1 ELSE @]

(* The synchronize_stream call a SyncHandle r with id k issues, if any. *)
NoWaitCall(r, k, s, ok) == <<>>
WaitCall(r, k, s, ok) ==
    IF SyncWaits(r) THEN <<Call("synchronize_stream", s, <<>>, ok, k)>> ELSE <<>>

(* The backend call of commit_with_callback: one dispatch of the flattened
   records on the stream, whatever their number. *)
CommitCallsSkipEmpty(s, commands, ok) ==
    IF commands = <<>> THEN <<>>
    ELSE <<Call("dispatch", s, FlattenCommands(commands), ok, 0)>>
CommitCalls(s, commands, ok) ==
    <<Call("dispatch", s, FlattenCommands(commands), ok, 0)>>

(* Device::default_stream *)
DefaultStream ==
    /\ ~panicked
    /\ deviceVals > 0
    /\ HasFreeHandle
    /\ handles' = [handles EXCEPT ![FreeHandle] =
                        [kind |-> "Default", stream |-> DefaultStreamId]]
    /\ streamVal' = [streamVal EXCEPT ![FreeHandle] = TRUE]
    /\ UNCHANGED <<cmdBufs, syncs, pending, inflight, leaked, bufVal, committed,
                   lastReturn, panicked>>
    /\ Quiet

(* Device::create_stream: the backend call fails (ok = FALSE) or succeeds. *)
CreateStream(ok) ==
    /\ ~panicked
    /\ deviceVals > 0
    /\ IF ok
       THEN /\ HasFreeHandle
            /\ HasFreeStream
            /\ handles' = [handles EXCEPT ![FreeHandle] =
                                [kind |-> "NonDefault", stream |-> FreeStream]]
            /\ streamVal' = [streamVal EXCEPT ![FreeHandle] = TRUE]
       ELSE UNCHANGED <<handles, streamVal>>
    /\ lastReturn' = Return("create_stream", ok)
    /\ UNCHANGED <<cmdBufs, syncs, pending, inflight, leaked, bufVal, committed,
                   panicked>>
    /\ Finish(<<Call("create_stream", IF ok THEN FreeStream ELSE 0, <<>>, ok, 0)>>)

(* A Stream value goes out of scope. *)
DropStream(h) ==
    /\ streamVal[h]
    /\ streamVal' = [streamVal EXCEPT ![h] = FALSE]
    /\ UNCHANGED <<handles, cmdBufs, syncs, pending, inflight, leaked, bufVal,
                   committed, lastReturn, panicked>>
    /\ Finish(<<>>)

(* Stream::synchronize *)
StreamSynchronize(h, ok) ==
    /\ ~panicked
    /\ streamVal[h]
    /\ inflight' = IF ok THEN Drained(inflight, handles[h].stream) ELSE inflight
    /\ lastReturn' = Return("synchronize", ok)
    /\ UNCHANGED <<handles, streamVal, cmdBufs, syncs, pending, leaked, bufVal,
                   committed, panicked>>
    /\ Finish(<<Call("synchronize_stream", handles[h].stream, <<>>, ok, 0)>>)

(* Stream::native_handle: the NonDefault arm returns the stored pointer, the
   Default arm is todo!(), which panics. *)
StreamNativeHandle(h) ==
    /\ ~panicked
    /\ streamVal[h]
    /\ IF handles[h].kind = "Default"
       THEN panicked' = TRUE /\ UNCHANGED lastReturn
       ELSE lastReturn' = Return("native_handle", TRUE) /\ UNCHANGED panicked
    /\ UNCHANGED <<handles, streamVal, cmdBufs, syncs, pending, inflight, leaked,
                   bufVal, committed>>
    /\ Quiet

(* Stream::command_buffer *)
CommandBufferNew(h) ==
    /\ ~panicked
    /\ streamVal[h]
    /\ HasFreeCb
    /\ cmdBufs' = [cmdBufs EXCEPT ![FreeCb] = [NoCb EXCEPT !.state = "open", !.stream = h]]
    /\ UNCHANGED <<handles, streamVal, syncs, pending, inflight, leaked, bufVal,
                   committed, lastReturn, panicked>>
    /\ Quiet

(* Kernel::dispatch_async on buffer b: the caller now holds the Command. *)
DispatchAsync(b, size) ==
    /\ ~panicked
    /\ bufVal[b]
    /\ Len(pending) < MaxCmds
    /\ pending' = Append(pending, DispatchAsyncCommand(SyncShaderHandle, b, size))
    /\ UNCHANGED <<handles, streamVal, cmdBufs, syncs, inflight, leaked, bufVal,
                   committed, lastReturn, panicked>>
    /\ Quiet

(* CommandBuffer::push of a command the caller holds. *)
Push(c, i) ==
    /\ ~panicked
    /\ cmdBufs[c].state = "open"
    /\ i \in DOMAIN pending
    /\ Len(cmdBufs[c].commands) < MaxCmds
    /\ cmdBufs' = [cmdBufs EXCEPT
                      ![c].commands = PushCommand(@, pending[i]),
                      ![c].hist = Append(@, pending[i].inner)]
    /\ pending' = RemoveAt(pending, i)
    /\ UNCHANGED <<handles, streamVal, syncs, inflight, leaked, bufVal,
                   committed, lastReturn, panicked>>
    /\ Quiet

(* CommandBuffer::extend with every command the caller holds, in order. *)
Extend(c) ==
    /\ ~panicked
    /\ cmdBufs[c].state = "open"
    /\ Len(pending) >= 1
    /\ Len(cmdBufs[c].commands) + Len(pending) <= MaxCmds
    /\ cmdBufs' = [cmdBufs EXCEPT
                      ![c].commands = ExtendCommands(@, pending),
                      ![c].hist = @ \o [i \in DOMAIN pending |-> pending[i].inner]]
    /\ pending' = <<>>
    /\ UNCHANGED <<handles, streamVal, syncs, inflight, leaked, bufVal,
                   committed, lastReturn, panicked>>
    /\ Quiet

(* A Command the caller holds goes out of scope. *)
DropCommand(i) ==
    /\ i \in DOMAIN pending
    /\ pending' = RemoveAt(pending, i)
    /\ UNCHANGED <<handles, streamVal, cmdBufs, syncs, inflight, leaked, bufVal,
                   committed, lastReturn, panicked>>
    /\ Finish(<<>>)

(* An uncommitted CommandBuffer goes out of scope. *)
DropCommandBuffer(c) ==
    /\ cmdBufs[c].state = "open"
    /\ cmdBufs' = [cmdBufs EXCEPT ![c] = [NoCb EXCEPT !.state = "dropped"]]
    /\ UNCHANGED <<handles, streamVal, syncs, pending, inflight, leaked, bufVal,
                   committed, lastReturn, panicked>>
    /\ Finish(<<>>)

(* CommandBuffer::commit_with_callback (commit is the same with an empty
   callback): one backend dispatch call with the flattened records; the
   commands move into the boxed context; on success a SyncHandle holding a
   clone of the stream handle is returned, on failure the `?` returns early. *)
Commit(c, ok) ==
    /\ ~panicked
    /\ cmdBufs[c].state = "open"
    /\ LET h == cmdBufs[c].stream
           s == handles[h].stream
       IN /\ cmdBufs' = [cmdBufs EXCEPT ![c] = [NoCb EXCEPT !.state = "committed"]]
          /\ syncs' = IF ok THEN [syncs EXCEPT ![c] = NewSyncHandle(h)]
                      ELSE syncs
          /\ HandOff(s, cmdBufs[c].commands, ok, c)
          /\ committed' = [committed EXCEPT ![s] = @ \o cmdBufs[c].hist]
          /\ lastReturn' = Return("commit", ok)
          /\ UNCHANGED <<handles, streamVal, pending, bufVal, panicked>>
          /\ Finish(CommitCalls(s, cmdBufs[c].commands, ok))

(* Stream::submit = command_buffer + extend + commit, with the commands the
   caller holds; the command buffer is a temporary of the call. *)
Submit(h, ok) ==
    /\ ~panicked
    /\ streamVal[h]
    /\ HasFreeCb
    /\ pending' = <<>>
    /\ cmdBufs' = [cmdBufs EXCEPT ![FreeCb] = [NoCb EXCEPT !.state = "committed"]]
    /\ syncs' = IF ok THEN [syncs EXCEPT ![FreeCb] = NewSyncHandle(h)] ELSE syncs
    /\ HandOff(handles[h].stream, ExtendCommands(<<>>, pending), ok, FreeCb)
    /\ committed' = [committed EXCEPT ![handles[h].stream] =
                        @ \o [i \in DOMAIN pending |-> pending[i].inner]]
    /\ lastReturn' = Return("submit", ok)
    /\ UNCHANGED <<handles, streamVal, bufVal, panicked>>
    /\ Finish(CommitCalls(handles[h].stream, ExtendCommands(<<>>, pending), ok))

(* Stream::submit_and_sync = submit(commands)?.synchronize() on the stream
   with backend id s held through handle h: a failed dispatch returns early;
   otherwise the temporary SyncHandle is synchronized (ok2 is the backend's
   answer) and then dropped. *)
SubmitAndSyncOn(h, s, cmds, ok, ok2, api) ==
    LET k == FreeCb
        fresh == NewSyncHandle(h)
        synced == SyncSynchronized(fresh)
        waitCalls == WaitCall(fresh, k, s, ok2) \o WaitCall(synced, k, s, ok2)
    IN /\ HasFreeCb
       /\ cmdBufs' = [cmdBufs EXCEPT ![k] = [NoCb EXCEPT !.state = "committed"]]
       /\ syncs' = IF ok THEN [syncs EXCEPT ![k] = SyncDropped(synced)] ELSE syncs
       /\ inflight' = IF ok
                      THEN (IF ok2
                            THEN Drained(Append(inflight, Ctx(s, ExtendCommands(<<>>, cmds), k)), s)
                            ELSE Append(inflight, Ctx(s, ExtendCommands(<<>>, cmds), k)))
                      ELSE inflight
       /\ leaked' = IF ok THEN leaked
                    ELSE leaked \cup {Ctx(s, ExtendCommands(<<>>, cmds), k)}
       /\ committed' = [committed EXCEPT ![s] = @ \o [i \in DOMAIN cmds |-> cmds[i].inner]]
       /\ lastReturn' = Return(api, ok /\ ok2)
       /\ Finish(CommitCalls(s, ExtendCommands(<<>>, cmds), ok)
                 \o (IF ok THEN waitCalls ELSE <<>>))

SubmitAndSync(h, ok, ok2) ==
    /\ ~panicked
    /\ streamVal[h]
    /\ ok2 \/ ok
    /\ pending' = <<>>
    /\ UNCHANGED <<handles, streamVal, bufVal, panicked>>
    /\ SubmitAndSyncOn(h, handles[h].stream, pending, ok, ok2, "submit_and_sync")

(* submit_default_stream_and_sync: device.default_stream() is a temporary
   wrapper of the default stream (no Drop effect), then submit_and_sync. *)
TempDefault == MaxHandles + 1
SubmitDefaultStreamAndSync(cmds, ok, ok2, api) ==
    SubmitAndSyncOn(TempDefault, DefaultStreamId, cmds, ok, ok2, api)

(* Kernel::dispatch -> RawShader::dispatch: encode, dispatch_async, then
   submit_default_stream_and_sync of the one command. *)
KernelDispatch(b, size, ok, ok2) ==
    /\ ~panicked
    /\ bufVal[b]
    /\ ok2 \/ ok
    /\ UNCHANGED <<handles, streamVal, pending, bufVal, panicked>>
    /\ SubmitDefaultStreamAndSync(<<DispatchAsyncCommand(SyncShaderHandle, b, size)>>,
                                  ok, ok2, "dispatch")

(* SyncHandle::synchronize.  The first call takes the stream and waits; a
   later call finds None and unwrap panics. *)
SyncHandleSynchronize(k, ok) ==
    /\ ~panicked
    /\ syncs[k].state = "live"
    /\ syncs' = [syncs EXCEPT ![k] = SyncSynchronized(@)]
    /\ UNCHANGED <<handles, streamVal, cmdBufs, pending, leaked, bufVal, committed>>
    /\ IF SyncPanics(syncs[k])
       THEN /\ ok
            /\ panicked' = TRUE
            /\ UNCHANGED <<inflight, lastReturn>>
            /\ Quiet
       ELSE LET s == handles[syncs[k].stream].stream
            IN /\ inflight' = IF ok THEN Drained(inflight, s) ELSE inflight
               /\ lastReturn' = Return("synchronize", ok)
               /\ UNCHANGED panicked
               /\ Finish(WaitCall(syncs[k], k, s, ok))

(* Drop for SyncHandle: waits only if the stream was never taken. *)
DropSyncHandle(k, ok) ==
    /\ syncs[k].state = "live"
    /\ syncs' = [syncs EXCEPT ![k] = SyncDropped(@)]
    /\ UNCHANGED <<handles, streamVal, cmdBufs, pending, leaked, bufVal, committed,
                   lastReturn, panicked>>
    /\ IF SyncWaits(syncs[k])
       THEN LET s == handles[syncs[k].stream].stream
            IN /\ inflight' = IF ok THEN Drained(inflight, s) ELSE inflight
               /\ Finish(WaitCall(syncs[k], k, s, ok))
       ELSE /\ ok
            /\ inflight' = inflight
            /\ Finish(<<>>)

(* The backend finishes the oldest batch it accepted on some stream and runs
   the trampoline, which drops the boxed context. *)
BackendComplete(j) ==
    /\ j \in DOMAIN inflight
    /\ \A i \in 1..(j - 1) : inflight[i].stream # inflight[j].stream
    /\ inflight' = RemoveAt(inflight, j)
    /\ UNCHANGED <<handles, streamVal, cmdBufs, syncs, pending, leaked, bufVal,
                   committed, lastReturn, panicked>>
    /\ Finish(<<>>)

(* The caller's Buffer value goes out of scope. *)
DropBuffer(b) ==
    /\ bufVal[b]
    /\ bufVal' = [bufVal EXCEPT ![b] = FALSE]
    /\ UNCHANGED <<handles, streamVal, cmdBufs, syncs, pending, inflight, leaked,
                   committed, lastReturn, panicked>>
    /\ Finish(<<>>)

(* Spec: the lifetimes of streams, command buffers and sync handles; the
   batches committed here are empty. *)
Next ==
    \/ DefaultStream
    \/ \E ok \in BOOLEAN : CreateStream(ok)
    \/ \E h \in HandleIds : DropStream(h)
    \/ \E h \in HandleIds, ok \in BOOLEAN : StreamSynchronize(h, ok)
    \/ \E h \in HandleIds : CommandBufferNew(h)
    \/ \E c \in CbIds : DropCommandBuffer(c)
    \/ \E c \in CbIds, ok \in BOOLEAN : Commit(c, ok)
    \/ \E h \in HandleIds, ok \in BOOLEAN : Submit(h, ok)
    \/ \E h \in HandleIds, ok, ok2 \in BOOLEAN : SubmitAndSync(h, ok, ok2)
    \/ \E k \in SyncIds, ok \in BOOLEAN : SyncHandleSynchronize(k, ok)
    \/ \E k \in SyncIds, ok \in BOOLEAN : DropSyncHandle(k, ok)
    \/ \E j \in 1..MaxCmdBufs : BackendComplete(j)

Spec == Init /\ [][Next]_vars

(* SpecOrder: command buffers filled by push/extend and committed on two
   streams the caller holds. *)
InitOrder == InitWith({1, 2})

NextOrder ==
    \/ \E h \in HandleIds : CommandBufferNew(h)
    \/ \E b \in BufIds, size \in 1..MaxGrid : DispatchAsync(b, size)
    \/ \E c \in CbIds, i \in 1..MaxCmds : Push(c, i)
    \/ \E c \in CbIds : Extend(c)
    \/ \E c \in CbIds, ok \in BOOLEAN : Commit(c, ok)
    \/ \E h \in HandleIds, ok \in BOOLEAN : Submit(h, ok)

SpecOrder == InitOrder /\ [][NextOrder]_vars

(* SpecDispatch: kernel dispatches on buffer B, synchronous and asynchronous,
   through a default-stream wrapper the caller holds. *)
InitDispatch == InitWith({1})

NextDispatch ==
    \/ \E b \in BufIds : DispatchAsync(b, 1)
    \/ \E i \in 1..MaxCmds : DropCommand(i)
    \/ \E h \in HandleIds, ok \in BOOLEAN : Submit(h, ok)
    \/ \E h \in HandleIds, ok, ok2 \in BOOLEAN : SubmitAndSync(h, ok, ok2)
    \/ \E b \in BufIds, ok, ok2 \in BOOLEAN : KernelDispatch(b, 1, ok, ok2)
    \/ \E k \in SyncIds, ok \in BOOLEAN : SyncHandleSynchronize(k, ok)
    \/ \E k \in SyncIds, ok \in BOOLEAN : DropSyncHandle(k, ok)
    \/ \E j \in 1..MaxCmdBufs : BackendComplete(j)
    \/ \E b \in BufIds : DropBuffer(b)

SpecDispatch == InitDispatch /\ [][NextDispatch]_vars

(* SpecCallback: batches of dispatch commands committed with a completion
   callback on the default stream, their completion and their waits. *)
NextCallback ==
    \/ \E h \in HandleIds : CommandBufferNew(h)
    \/ \E b \in BufIds : DispatchAsync(b, 1)
    \/ \E c \in CbIds, i \in 1..MaxCmds : Push(c, i)
    \/ \E c \in CbIds, ok \in BOOLEAN : Commit(c, ok)
    \/ \E k \in SyncIds, ok \in BOOLEAN : SyncHandleSynchronize(k, ok)
    \/ \E k \in SyncIds, ok \in BOOLEAN : DropSyncHandle(k, ok)
    \/ \E j \in 1..MaxCmdBufs : BackendComplete(j)

SpecCallback == InitDispatch /\ [][NextCallback]_vars

(* SpecStream: the operations of Stream on a wrapper of the default stream
   (handle 1) and on a created stream (handle 2). *)
NextStream ==
    \/ \E h \in HandleIds : StreamNativeHandle(h)
    \/ \E h \in HandleIds, ok \in BOOLEAN : StreamSynchronize(h, ok)
    \/ \E h \in HandleIds : CommandBufferNew(h)
    \/ \E c \in CbIds : DropCommandBuffer(c)
    \/ \E h \in HandleIds, ok \in BOOLEAN : Submit(h, ok)
    \/ \E h \in HandleIds, ok, ok2 \in BOOLEAN : SubmitAndSync(h, ok, ok2)
    \/ \E k \in SyncIds, ok \in BOOLEAN : DropSyncHandle(k, ok)
    \/ \E h \in HandleIds : DropStream(h)

SpecStream == InitOrder /\ [][NextStream]_vars

(* SpecReject: commits, submit_and_sync and kernel dispatches whose backend
   dispatch call may be rejected, with the program and the backend running
   on: a step that can be taken is eventually taken. *)
NextReject ==
    \/ \E h \in HandleIds : CommandBufferNew(h)
    \/ \E b \in BufIds : DispatchAsync(b, 1)
    \/ \E c \in CbIds, i \in 1..MaxCmds : Push(c, i)
    \/ \E c \in CbIds, ok \in BOOLEAN : Commit(c, ok)
    \/ \E h \in HandleIds, ok, ok2 \in BOOLEAN : SubmitAndSync(h, ok, ok2)
    \/ \E b \in BufIds, ok, ok2 \in BOOLEAN : KernelDispatch(b, 1, ok, ok2)
    \/ \E k \in SyncIds, ok \in BOOLEAN : DropSyncHandle(k, ok)
    \/ \E j \in 1..MaxCmdBufs : BackendComplete(j)

SpecReject == InitDispatch /\ [][NextReject]_vars /\ WF_vars(NextReject)

(* ------------- SpecShader: the asynchronous shader artifact ----------- *)
(* Kernel creation in sync mode: the creating call runs the backend compile
   and returns the kernel or the backend's error. *)
BuildSync ==
    /\ deviceVals > 0
    /\ syncKernel = "none"
    /\ createCalls' = [createCalls EXCEPT !["Sync"] = @ + 1]
    /\ syncKernel' = IF CreateShader(compileOk).ok THEN "created" ELSE "failed"
    /\ UNCHANGED <<compileOk, asyncKernel, slot, mutex, notified, bg, bgResult,
                   slotWrites, thr>>
CreateKernelSync == BuildSync /\ UNCHANGED notShader

(* AsyncShaderArtifact::new: the slot starts empty, the job is handed to
   rayon, and the artifact is returned at once. *)
BuildAsync ==
    /\ deviceVals > 0
    /\ asyncKernel = "none"
    /\ asyncKernel' = "created"
    /\ slot' = NoneSlot
    /\ bg' = "spawned"
    /\ UNCHANGED <<compileOk, syncKernel, mutex, notified, bgResult, createCalls,
                   slotWrites, thr>>
CreateKernelAsync == BuildAsync /\ UNCHANGED notShader

(* rayon::spawn runs the closure once. *)
BgMayRunAgain == bg \in {"spawned", "done"}
BgMayRun == bg = "spawned"

(* let shader = device.inner.create_shader(kernel); *)
BgCreateShader ==
    /\ BgMayRun
    /\ createCalls' = [createCalls EXCEPT !["Async"] = @ + 1]
    /\ bgResult' = CreateShader(compileOk)
    /\ bg' = "compiled"
    /\ UNCHANGED <<compileOk, syncKernel, asyncKernel, slot, mutex, notified,
                   slotWrites, thr>>
    /\ UNCHANGED notShader

(* let mut artifact = artifact.0.lock(); *)
BgLock ==
    /\ bg = "compiled"
    /\ mutex = NoOwner
    /\ mutex' = BgTask
    /\ bg' = "locked"
    /\ UNCHANGED <<compileOk, syncKernel, asyncKernel, slot, notified, bgResult,
                   createCalls, slotWrites, thr>>
    /\ UNCHANGED notShader

(* artifact.shader = Some(shader); the guard is dropped at the block's end. *)
BgStore ==
    /\ bg = "locked"
    /\ slot' = bgResult
    /\ slotWrites' = slotWrites + 1
    /\ mutex' = NoOwner
    /\ bg' = "stored"
    /\ UNCHANGED <<compileOk, syncKernel, asyncKernel, notified, bgResult,
                   createCalls, thr>>
    /\ UNCHANGED notShader

(* artifact.1.notify_all(): every thread parked on the condvar is unparked. *)
NotifyOne ==
    IF \E t \in ThreadIds : thr[t].pc = "waiting"
    THEN {CHOOSE t \in ThreadIds : thr[t].pc = "waiting"}
    ELSE {}
NotifyAll == {t \in ThreadIds : thr[t].pc = "waiting"}

BgNotifyAll ==
    /\ bg = "stored"
    /\ notified' = NotifyAll
    /\ bg' = "done"
    /\ UNCHANGED <<compileOk, syncKernel, asyncKernel, slot, mutex, bgResult,
                   createCalls, slotWrites, thr>>
    /\ UNCHANGED notShader

(* RawShader::unwrap, Sync arm: the handle stored in the artifact. *)
UnwrapSync(t, op) ==
    /\ thr[t].pc = "idle"
    /\ syncKernel = "created"
    /\ thr' = [thr EXCEPT ![t] = [pc |-> "done", kernel |-> "Sync", op |-> op,
                                  out |-> SyncShaderHandle, why |-> "none"]]
    /\ UNCHANGED <<compileOk, syncKernel, asyncKernel, slot, mutex, notified, bg,
                   bgResult, createCalls, slotWrites>>
    /\ UNCHANGED notShader

(* RawShader::unwrap, Async arm: artifact.0.lock(). *)
UnwrapLock(t, op) ==
    /\ thr[t].pc = "idle"
    /\ asyncKernel = "created"
    /\ mutex = NoOwner
    /\ mutex' = t
    /\ thr' = [thr EXCEPT ![t] = [IdleThread EXCEPT !.pc = "locked",
                                                    !.kernel = "Async", !.op = op]]
    /\ UNCHANGED <<compileOk, syncKernel, asyncKernel, slot, notified, bg,
                   bgResult, createCalls, slotWrites>>
    /\ UNCHANGED notShader

(* What a thread holding the lock gets from the slot s: the handle, or the
   panic of unwrap() on None or on Err.  The guard is dropped either way. *)
ReadSlotErrAsValue(r, s) ==
    IF ~s.some THEN [r EXCEPT !.pc = "panicked", !.why = "None"]
    ELSE [r EXCEPT !.pc = "done", !.out = s.handle]
ReadSlot(r, s) ==
    IF ~s.some THEN [r EXCEPT !.pc = "panicked", !.why = "None"]
    ELSE IF ~s.ok THEN [r EXCEPT !.pc = "panicked", !.why = "Err"]
    ELSE [r EXCEPT !.pc = "done", !.out = s.handle]

(* if let Some(shader) = &artifact.shader { return ...unwrap()... }
   otherwise condvar.wait(&mut artifact): the thread parks and the mutex is
   released in one step. *)
UnwrapCheck(t) ==
    /\ thr[t].pc = "locked"
    /\ thr' = [thr EXCEPT ![t] = IF slot.some THEN ReadSlot(@, slot)
                                 ELSE [@ EXCEPT !.pc = "waiting"]]
    /\ mutex' = NoOwner
    /\ UNCHANGED <<compileOk, syncKernel, asyncKernel, slot, notified, bg,
                   bgResult, createCalls, slotWrites>>
    /\ UNCHANGED notShader

(* parking_lot::Condvar::wait returns only to a thread that a notify call
   unparked (it has no spurious wakeups), with the mutex locked again. *)
MayWakeSpuriously(t) == TRUE
MayWake(t) == t \in notified

UnwrapWake(t) ==
    /\ thr[t].pc = "waiting"
    /\ MayWake(t)
    /\ mutex = NoOwner
    /\ mutex' = t
    /\ notified' = notified \ {t}
    /\ thr' = [thr EXCEPT ![t].pc = "woken"]
    /\ UNCHANGED <<compileOk, syncKernel, asyncKernel, slot, bg, bgResult,
                   createCalls, slotWrites>>
    /\ UNCHANGED notShader

(* After the wait: artifact.shader.as_ref().unwrap().as_ref().unwrap(). *)
UnwrapRead(t) ==
    /\ thr[t].pc = "woken"
    /\ thr' = [thr EXCEPT ![t] = ReadSlot(@, slot)]
    /\ mutex' = NoOwner
    /\ UNCHANGED <<compileOk, syncKernel, asyncKernel, slot, notified, bg,
                   bgResult, createCalls, slotWrites>>
    /\ UNCHANGED notShader

(* The call that resolved the artifact returns; the thread is free again. *)
ThreadReturn(t) ==
    /\ thr[t].pc = "done"
    /\ thr' = [thr EXCEPT ![t] = IdleThread]
    /\ UNCHANGED <<compileOk, syncKernel, asyncKernel, slot, mutex, notified, bg,
                   bgResult, createCalls, slotWrites>>
    /\ UNCHANGED notShader

InitShader ==
    /\ StreamInit({}) /\ ShaderNone(BOOLEAN) /\ FactoryNone /\ EncoderNone
    /\ CreateNone({FALSE}) /\ IdentityNone /\ ArgsNone

NextShader ==
    \/ CreateKernelSync
    \/ CreateKernelAsync
    \/ BgCreateShader
    \/ BgLock
    \/ BgStore
    \/ BgNotifyAll
    \/ \E t \in ThreadIds, op \in KernelOps : UnwrapSync(t, op)
    \/ \E t \in ThreadIds, op \in KernelOps : UnwrapLock(t, op)
    \/ \E t \in ThreadIds : UnwrapCheck(t)
    \/ \E t \in ThreadIds : UnwrapWake(t)
    \/ \E t \in ThreadIds : UnwrapRead(t)
    \/ \E t \in ThreadIds : ThreadReturn(t)

SpecShader == InitShader /\ [][NextShader]_vars

(* SpecShaderFair: the same steps under the scheduling the program runs
   with.  The rayon pool runs a spawned job; a thread inside unwrap keeps
   running; the parking_lot mutex is eventually fair, so a thread or the job
   that keeps asking for the lock gets it.  Whether and when a thread starts
   a call on a kernel is up to the application. *)
FairShader ==
    /\ WF_vars(BgCreateShader)
    /\ SF_vars(BgLock)
    /\ WF_vars(BgStore)
    /\ WF_vars(BgNotifyAll)
    /\ \A t \in ThreadIds :
          /\ WF_vars(UnwrapCheck(t))
          /\ SF_vars(UnwrapWake(t))
          /\ WF_vars(UnwrapRead(t))

SpecShaderFair == SpecShader /\ FairShader

(* SpecCreate: the two kernel-creation entry points of Device.  Both build
   the kernel with ShaderBuildOptions::default(); whether that default asks
   for a background build is fixed for the run.  A call has blocked on the
   compile if the backend compile was called before it returned. *)
DeviceCreateKernel(api) ==
    /\ created[api] = "none"
    /\ IF asyncDefault THEN BuildAsync ELSE BuildSync
    /\ created' = [created EXCEPT ![api] =
                      IF createCalls' # createCalls THEN "blocking" ELSE "background"]
    /\ UNCHANGED asyncDefault
    /\ UNCHANGED notCreate

InitCreate ==
    /\ StreamInit({}) /\ ShaderNone(BOOLEAN) /\ FactoryNone /\ EncoderNone
    /\ CreateNone(BOOLEAN) /\ IdentityNone /\ ArgsNone

NextCreate ==
    \/ \E api \in EntryPoints : DeviceCreateKernel(api)
    \/ BgCreateShader
    \/ BgLock
    \/ BgStore
    \/ BgNotifyAll
    \/ \E t \in ThreadIds, op \in KernelOps : UnwrapSync(t, op)
    \/ \E t \in ThreadIds, op \in KernelOps : UnwrapLock(t, op)
    \/ \E t \in ThreadIds : UnwrapCheck(t)
    \/ \E t \in ThreadIds : UnwrapWake(t)
    \/ \E t \in ThreadIds : UnwrapRead(t)
    \/ \E t \in ThreadIds : ThreadReturn(t)

SpecCreate == InitCreate /\ [][NextCreate]_vars

(* ---------------- SpecFactory: the Device resource factory ------------ *)
BufferApis == {"create_buffer", "create_buffer_from_slice", "create_buffer_from_fn"}
OtherKinds == {"tex2d", "tex3d", "bindless_array", "accel"}

(* The backend entry point a factory call forwards to. *)
BackendOp(kind) ==
    CASE kind = "buffer" -> "create_buffer"
      [] kind \in {"tex2d", "tex3d"} -> "create_texture"
      [] kind = "bindless_array" -> "create_bindless_array"
      [] kind = "mesh" -> "create_mesh"
      [] kind = "accel" -> "create_accel"
CreateOps == {"create_buffer", "create_texture", "create_bindless_array",
              "create_mesh", "create_accel", "create_stream"}

HasFreeRes == \E r \in ResIds : res[r].state = "none"
FreeRes == CHOOSE r \in ResIds : res[r].state = "none"
             /\ \A q \in ResIds : res[q].state = "none" => r <= q

(* `let x = self.inner.create_*(..)?;` comes first in every factory: the
   handle is built only from a successful backend answer. *)
ConstructedAlways(ok) == TRUE
Constructed(ok) == ok

(* The handle table after a factory call of `kind` got the answer ok; the id
   of the new handle is the one the backend returned. *)
ResAfter(kind, ok, filled) ==
    IF Constructed(ok)
    THEN [res EXCEPT ![FreeRes] = [kind |-> kind, state |-> "live", filled |-> filled]]
    ELSE res

(* The calls a step issues, with no reference count of the stream part
   released. *)
FactoryFinish(cs) ==
    /\ UNCHANGED <<handles, streamVal, cmdBufs, syncs, pending, inflight, leaked,
                   bufVal, committed>>
    /\ UNCHANGED notFactory
    /\ FinishCalls(cs)

(* create_buffer: assert!(size_of::<T>() > 0) comes before the backend call;
   a failed assert panics. *)
CreateBufferCallsUnchecked(zeroSized, ok) ==
    <<Call("create_buffer", IF ok THEN FreeRes ELSE 0, <<>>, ok, 0)>>
CreateBufferCalls(zeroSized, ok) ==
    IF zeroSized THEN <<>>
    ELSE <<Call("create_buffer", IF ok THEN FreeRes ELSE 0, <<>>, ok, 0)>>

(* Device::create_buffer, and create_buffer_from_slice / create_buffer_from_fn,
   which call it, return its error with `?`, and fill the new buffer. *)
CreateBuffer(api, zeroSized, ok) ==
    /\ ~panicked
    /\ deviceVals > 0
    /\ ok => HasFreeRes
    /\ zeroSized => ok
    /\ IF zeroSized
       THEN /\ panicked' = TRUE
            /\ UNCHANGED <<res, lastReturn>>
       ELSE /\ res' = ResAfter("buffer", ok, api # "create_buffer")
            /\ lastReturn' = Return(api, ok)
            /\ UNCHANGED panicked
    /\ FactoryFinish(CreateBufferCalls(zeroSized, ok))

(* create_tex2d / create_tex3d / create_bindless_array / create_accel *)
CreateResource(kind, ok) ==
    /\ ~panicked
    /\ deviceVals > 0
    /\ ok => HasFreeRes
    /\ res' = ResAfter(kind, ok, FALSE)
    /\ lastReturn' = Return(BackendOp(kind), ok)
    /\ UNCHANGED panicked
    /\ FactoryFinish(<<Call(BackendOp(kind), IF ok THEN FreeRes ELSE 0, <<>>, ok, 0)>>)

(* create_mesh over views of the live buffers v and t: the mesh records the
   buffers' ids, it does not own them. *)
CreateMesh(v, t, ok) ==
    /\ ~panicked
    /\ deviceVals > 0
    /\ res[v].kind = "buffer" /\ res[v].state = "live"
    /\ res[t].kind = "buffer" /\ res[t].state = "live"
    /\ ok => HasFreeRes
    /\ res' = ResAfter("mesh", ok, FALSE)
    /\ lastReturn' = Return("create_mesh", ok)
    /\ UNCHANGED panicked
    /\ FactoryFinish(<<Call("create_mesh", IF ok THEN FreeRes ELSE 0, <<>>, ok, 0)>>)

(* The last owner of a resource handle drops it: the matching backend destroy
   call is issued. *)
DropResource(r) ==
    /\ res[r].state = "live"
    /\ res' = [res EXCEPT ![r].state = "dropped"]
    /\ UNCHANGED <<lastReturn, panicked>>
    /\ FactoryFinish(<<Call("destroy_resource", r, <<>>, TRUE, 0)>>)

NextFactory ==
    \/ \E api \in BufferApis, zeroSized, ok \in BOOLEAN : CreateBuffer(api, zeroSized, ok)
    \/ \E kind \in OtherKinds, ok \in BOOLEAN : CreateResource(kind, ok)
    \/ \E v, t \in ResIds, ok \in BOOLEAN : CreateMesh(v, t, ok)
    \/ \E ok \in BOOLEAN : CreateStream(ok)
    \/ \E r \in ResIds : DropResource(r)
    \/ \E h \in HandleIds : DropStream(h)

SpecFactory == Init /\ [][NextFactory]_vars

(* ------------- SpecDevice: the lifetime of the device handle ---------- *)
(* Device::clone (derived): one more Arc<DeviceHandle>. *)
DeviceClone ==
    /\ ~panicked
    /\ deviceVals > 0
    /\ deviceVals < MaxDevices
    /\ deviceVals' = deviceVals + 1
    /\ UNCHANGED <<handles, streamVal, cmdBufs, syncs, pending, inflight, leaked,
                   bufVal, committed, lastReturn, panicked>>
    /\ UNCHANGED notDevice
    /\ FinishCalls(<<>>)

(* A Device value goes out of scope. *)
DropDevice ==
    /\ deviceVals > 0
    /\ deviceVals' = deviceVals - 1
    /\ UNCHANGED <<handles, streamVal, cmdBufs, syncs, pending, inflight, leaked,
                   bufVal, committed, lastReturn, panicked>>
    /\ UNCHANGED notDevice
    /\ FinishCalls(<<>>)

NextDevice ==
    \/ DeviceClone
    \/ DropDevice
    \/ DefaultStream
    \/ CreateStream(TRUE)
    \/ \E h \in HandleIds : DropStream(h)
    \/ \E h \in HandleIds : CommandBufferNew(h)
    \/ \E c \in CbIds : DropCommandBuffer(c)
    \/ \E c \in CbIds : Commit(c, TRUE)
    \/ \E k \in SyncIds : SyncHandleSynchronize(k, TRUE)
    \/ \E k \in SyncIds : DropSyncHandle(k, TRUE)
    \/ CreateResource("accel", TRUE)
    \/ \E r \in ResIds : DropResource(r)

SpecDevice == Init /\ [][NextDevice]_vars

(* --------------- SpecEncode: encoding kernel arguments ---------------- *)

(* The tuple and the positional-argument implementations are generated for
   sixteen type parameters, T0 .. T15. *)
MaxArity == 16

KindSeq ==
    <<"Buffer", "BufferView", "Tex2d", "Tex3d",
      "Tex2dView", "Tex3dView", "BindlessArray", "Accel">>
Kinds == {KindSeq[i] : i \in 1..Len(KindSeq)}

(* impl AsKernelArg<slot> for arg: the pairs <<slot, arg>>. *)
AsKernelArg ==
    { <<"Buffer", "Buffer">>, <<"Buffer", "BufferView">>,
      <<"BufferView", "BufferView">>, <<"BufferView", "Buffer">>,
      <<"Tex2d", "Tex2dView">>, <<"Tex3d", "Tex3dView">>,
      <<"Tex3dView", "Tex2dView">>, <<"Tex3dView", "Tex3dView">>,
      <<"Tex3dView", "Tex2d">>, <<"Tex3dView", "Tex3d">>,
      <<"Tex2d", "Tex2d">>, <<"Tex3d", "Tex3d">>,
      <<"BindlessArray", "BindlessArray">>, <<"Accel", "Accel">> }

Accepts(param, kind) == <<param, kind>> \in AsKernelArg

(* The argument kinds a slot accepts, and the slots that accept something. *)
AcceptedBy(param) == SelectSeq(KindSeq, LAMBDA k : Accepts(param, k))
DeclarableSlots == SelectSeq(KindSeq, LAMBDA s : AcceptedBy(s) # <<>>)

(* api::Argument: one record of the encoder. *)
BufferArgument(id, offset, size) ==
    [cat |-> "buffer", id |-> id, offset |-> offset, size |-> size, level |-> 0]
TextureArgument(id, level) ==
    [cat |-> "texture", id |-> id, offset |-> 0, size |-> 0, level |-> level]
HandleArgument(cat, id) ==
    [cat |-> cat, id |-> id, offset |-> 0, size |-> 0, level |-> 0]

(* ArgEncoder::buffer, buffer_view, tex2d, tex3d, bindless_array, accel:
   each pushes one record at the back. *)
EncoderBuffer(enc, a) == Append(enc, BufferArgument(a.id, 0, a.len * a.elem))
EncoderBufferView(enc, a) ==
    Append(enc, BufferArgument(a.id, a.offset, a.len * a.elem))
EncoderTex2d(enc, a) == Append(enc, TextureArgument(a.id, a.level))
EncoderTex3d(enc, a) == Append(enc, TextureArgument(a.id, a.level))
EncoderBindlessArray(enc, a) == Append(enc, HandleArgument("bindless_array", a.id))
EncoderAccel(enc, a) == Append(enc, HandleArgument("accel", a.id))

(* Tex2d::view(level), Tex3d::view(level). *)
View(a, level) == [a EXCEPT !.level = level]

(* KernelArg::encode of the eight resource kinds. *)
EncodeArg(a, enc) ==
    CASE a.kind = "Buffer" -> EncoderBuffer(enc, a)
      [] a.kind = "BufferView" -> EncoderBufferView(enc, a)
      [] a.kind = "Tex2d" -> EncoderTex2d(enc, View(a, 0))
      [] a.kind = "Tex3d" -> EncoderTex3d(enc, View(a, 0))
      [] a.kind = "Tex2dView" -> EncoderTex2d(enc, a)
      [] a.kind = "Tex3dView" -> EncoderTex3d(enc, a)
      [] a.kind = "BindlessArray" -> EncoderBindlessArray(enc, a)
      [] a.kind = "Accel" -> EncoderAccel(enc, a)

RECURSIVE EncodeTupleRestFirst(_, _)
EncodeTupleRestFirst(t, enc) ==
    IF t = <<>> THEN enc
    ELSE EncodeArg(Head(t), EncodeTupleRestFirst(Tail(t), enc))

(* KernelArg::encode of a tuple, and the argument list of Kernel::dispatch
   and Kernel::dispatch_async: the first element, then the rest in order;
   the unit tuple encodes nothing. *)
RECURSIVE EncodeTuple(_, _)
EncodeTuple(t, enc) ==
    IF t = <<>> THEN enc
    ELSE EncodeTuple(Tail(t), EncodeArg(Head(t), enc))

(* The inputs: the i-th argument of pattern p.  Its backend handle is its
   position, so that every record names the argument it came from.  Views
   carry an element offset and a mip level; the owning kinds carry none. *)
Patterns == 0..(MaxPatterns - 1)
Arities == 0..MaxArity
IsView(kind) == kind \in {"BufferView", "Tex2dView", "Tex3dView"}
Arg(kind, i, p) ==
    [kind |-> kind, id |-> i,
     offset |-> IF IsView(kind) THEN (i + p) % 3 ELSE 0,
     len |-> 1 + (i % 2),
     elem |-> IF p % 2 = 0 THEN 4 ELSE 1,
     level |-> IF IsView(kind) THEN (i + p) % 2 ELSE 0]
(* The category of record a kind's own encode produces. *)
Category(kind) == EncodeArg(Arg(kind, 1, 0), ArgEncoderNew)[1].cat

Cycle(seq, i) == seq[(i % Len(seq)) + 1]
TupleOf(n, p) == [i \in 1..n |-> Arg(Cycle(KindSeq, i + p), i, p)]
SlotsOf(n, p) == [i \in 1..n |-> Cycle(DeclarableSlots, i + p)]
ArgsFor(ss, p, q) ==
    [i \in 1..Len(ss) |-> Arg(Cycle(AcceptedBy(ss[i]), q), i, p)]

(* Kernel<(T0, ..)>::dispatch and dispatch_async: a new encoder, every
   argument encoded in turn, the encoder handed to the raw shader.  The
   arguments are accepted by the declared slots. *)
KernelEncode(n, p, q) ==
    LET ss == SlotsOf(n, p)
        as == ArgsFor(ss, p, q)
    IN /\ \A i \in 1..n : Accepts(ss[i], as[i].kind)
       /\ slots' = ss
       /\ args' = as
       /\ encBase' = ArgEncoderNew
       /\ encoder' = EncodeTuple(as, ArgEncoderNew)
       /\ UNCHANGED notEncode

(* (T0, ..)::encode(&self, encoder) on the encoder as it stands. *)
TupleEncode(n, p) ==
    /\ Len(encoder) <= MaxPre
    /\ slots' = <<>>
    /\ args' = TupleOf(n, p)
    /\ encBase' = encoder
    /\ encoder' = EncodeTuple(TupleOf(n, p), encoder)
    /\ UNCHANGED notEncode

NextEncode ==
    \/ \E n \in Arities, p \in Patterns, q \in 0..1 : KernelEncode(n, p, q)
    \/ \E n \in Arities, p \in Patterns : TupleEncode(n, p)

SpecEncode == Init /\ [][NextEncode]_vars

(* ---------- SpecArgs: the records a dispatch command points to -------- *)

(* The records Kernel<(T0, ..)>::dispatch / dispatch_async encode into their
   local encoder for n arguments; Kernel<()> encodes none. *)
KernelRecords(n, p) == EncodeTuple(ArgsFor(SlotsOf(n, p), p, 0), ArgEncoderNew)

(* Vec<api::Argument>: Vec::new() allocates nothing, the first push
   allocates the buffer (at address a); dropping the Vec frees it.  The
   bytes of a freed buffer stay until the address is allocated again. *)
NullArgs == 0
VecAlloc(hp, a, enc) ==
    IF enc = <<>> THEN hp ELSE [hp EXCEPT ![a] = [state |-> "alive", args |-> enc]]
VecDrop(hp, a, enc) ==
    IF enc = <<>> THEN hp ELSE [hp EXCEPT ![a].state = "free"]
VecAsPtr(a, enc) == IF enc = <<>> THEN NullArgs ELSE a

(* RawShader::dispatch_async: the command keeps the address of the encoder's
   records and their number, not the records. *)
ShaderDispatchCommand(a, enc) ==
    [args |-> VecAsPtr(a, enc), args_count |-> Len(enc)]

(* The records behind a command are alive: there is none to read, or the
   buffer the command points to is still allocated. *)
ArgsAlive(hp, c) == c.args_count = 0 \/ hp[c.args].state = "alive"

(* What the backend can find when it reads args[0 .. args_count) of command
   c: the records while the buffer is alive; reading a freed buffer is
   undefined, it can find what the address holds now, anything else, or
   fault. *)
Found(kind, recs) == [kind |-> kind, recs |-> recs]
ReadOutcomes(hp, c) ==
    IF c.args_count = 0 THEN {Found("records", <<>>)}
    ELSE IF ArgsAlive(hp, c) THEN {Found("records", hp[c.args].args)}
    ELSE {Found("stale", hp[c.args].args), Found("garbage", <<>>), Found("fault", <<>>)}
BackendReads(hp, c, api, out) ==
    [api |-> api, args |-> c.args, args_count |-> c.args_count,
     alive |-> ArgsAlive(hp, c), read |-> out]

(* Kernel::dispatch -> RawShader::dispatch: the local encoder is alive
   across dispatch_async and submit_default_stream_and_sync and is dropped
   when dispatch returns. *)
KernelDispatchArgs(n, p, a) ==
    LET enc == KernelRecords(n, p)
        hp == VecAlloc(heap, a, enc)
        cmd == ShaderDispatchCommand(a, enc)
    IN /\ heap[a].state = "free"
       /\ \E out \in ReadOutcomes(hp, cmd) :
             backendRead' = <<BackendReads(hp, cmd, "dispatch", out)>>
       /\ heap' = VecDrop(hp, a, enc)
       /\ UNCHANGED held
       /\ UNCHANGED notArgs

(* Kernel::dispatch_async -> RawShader::dispatch_async: the local encoder is
   dropped when dispatch_async returns; the caller holds the Command. *)
KernelDispatchAsyncArgs(n, p, a) ==
    LET enc == KernelRecords(n, p)
        hp == VecAlloc(heap, a, enc)
        cmd == ShaderDispatchCommand(a, enc)
    IN /\ heap[a].state = "free"
       /\ Len(held) < MaxCmds
       /\ held' = Append(held, cmd)
       /\ heap' = VecDrop(hp, a, enc)
       /\ UNCHANGED backendRead
       /\ UNCHANGED notArgs

(* Stream::submit of the commands the caller holds: commit hands their
   records to the backend dispatch call, which reads the arguments of each. *)
SubmitArgs ==
    /\ held # <<>>
    /\ \E outs \in [DOMAIN held ->
                      UNION {ReadOutcomes(heap, held[i]) : i \in DOMAIN held}] :
          /\ \A i \in DOMAIN held : outs[i] \in ReadOutcomes(heap, held[i])
          /\ backendRead' =
                [i \in DOMAIN held |-> BackendReads(heap, held[i], "submit", outs[i])]
    /\ held' = <<>>
    /\ UNCHANGED heap
    /\ UNCHANGED notArgs

(* The caller drops a Command it holds. *)
DropCommandArgs(i) ==
    /\ i \in DOMAIN held
    /\ held' = RemoveAt(held, i)
    /\ UNCHANGED <<heap, backendRead>>
    /\ UNCHANGED notArgs

NextArgs ==
    \/ \E n \in 0..MaxArgs, p \in Patterns, a \in EncAddrs : KernelDispatchArgs(n, p, a)
    \/ \E n \in 0..MaxArgs, p \in Patterns, a \in EncAddrs : KernelDispatchAsyncArgs(n, p, a)
    \/ SubmitArgs
    \/ \E i \in 1..MaxCmds : DropCommandArgs(i)

SpecArgs == Init /\ [][NextArgs]_vars

(* ------------- SpecIdentity: equality and hash of Device -------------- *)

(* Device { inner: Arc<DeviceHandle> }: the value holds the address of the
   allocation; `from` remembers the value it was cloned from (0: opened). *)
DeviceValue(a, from) == [inner |-> a, from |-> from]

(* impl PartialEq for Device: Arc::ptr_eq(&self.inner, &other.inner). *)
DeviceEqByStream(d, e) ==
    deviceHandles[d.inner].default_stream = deviceHandles[e.inner].default_stream
DeviceEq(d, e) == d.inner = e.inner

(* impl Hash for Device: the address of the allocation is fed to the hasher;
   the hasher maps it to one of a few values. *)
Hasher(ptr) == ptr % 2
DeviceHash(d) == Hasher(d.inner)

(* The backend connection a Device value refers to. *)
BackendOf(d) == deviceHandles[d.inner].backend

(* A device is opened: a new backend connection, whose new stream becomes the
   default stream, in a new DeviceHandle allocation at some free address. *)
Opened == {a \in AllocIds : deviceHandles[a].backend # 0}
NewBackend == Cardinality(Opened) + 1
OpenDevice(a, ds) ==
    /\ a \in AllocIds \ Opened
    /\ Len(devices) < MaxDeviceValues
    /\ deviceHandles' = [deviceHandles EXCEPT
            ![a] = [backend |-> NewBackend, default_stream |-> ds]]
    /\ devices' = Append(devices, DeviceValue(a, 0))
    /\ UNCHANGED notIdentity

(* #[derive(Clone)]: Arc::clone of inner. *)
CloneDevice(i) ==
    /\ i \in DOMAIN devices
    /\ Len(devices) < MaxDeviceValues
    /\ devices' = Append(devices, DeviceValue(devices[i].inner, i))
    /\ UNCHANGED deviceHandles
    /\ UNCHANGED notIdentity

NextIdentity ==
    \/ \E a \in AllocIds, ds \in StreamIds : OpenDevice(a, ds)
    \/ \E i \in 1..MaxDeviceValues : CloneDevice(i)

SpecIdentity == Init /\ [][NextIdentity]_vars

(* ------------------------------- claims ------------------------------- *)

(* C1: every SyncHandle issues exactly one synchronize_stream call over its
   life: none before the first explicit synchronize() or the drop, one once
   either has happened, and never a second one (a second synchronize() or the
   drop after a synchronize() issues nothing).  Stated for Spec. *)
C1_ExactlyOneWait ==
    \A k \in SyncIds :
        /\ syncs[k].waits <= 1
        /\ (syncs[k].state = "dropped" \/ syncs[k].calls >= 1) => syncs[k].waits = 1
        /\ (syncs[k].state = "live" /\ syncs[k].calls = 0) => syncs[k].waits = 0

(* A handle that was synchronized twice (the second call panicked) and then
   dropped by the unwinding, next to one that was only dropped. *)
C1_Witness ==
    \E k, j \in SyncIds :
        /\ syncs[k].state = "dropped" /\ syncs[k].calls = 2
        /\ syncs[j].state = "dropped" /\ syncs[j].calls = 0 /\ syncs[j].waits = 1

(* C2: a Command built by dispatch_async keeps the buffer it references
   alive: while a command naming buffer b is held by the caller, sits in an
   open command buffer, or belongs to a batch whose completion has not been
   waited on, the backend resource of b has not been destroyed.  The code
   builds the command with ResourceTracker::new(), so dropping the caller's
   Buffer destroys b at once: violated under SpecDispatch. *)
C2_CommandKeepsBufferAlive ==
    \A c \in LiveCommands : buffers[c.inner.arg] # "destroyed"

(* C5: the command records the backend received on a stream are the
   concatenation, in commit order, of each committed buffer's commands in the
   order push/extend appended them.  Stated for SpecOrder. *)
C5_PerStreamOrder ==
    \A s \in StreamIds : Concat(received[s]) = committed[s]

(* Two non-empty batches with different commands reached the same stream, the
   first one holding two different records. *)
C5_Witness ==
    \E s \in StreamIds :
        /\ Len(received[s]) = 2
        /\ Len(received[s][1]) = 2
        /\ received[s][1][1] # received[s][1][2]
        /\ Len(received[s][2]) >= 1
        /\ received[s][2][1] # received[s][1][1]

(* C6: a dispatch() that returns success has handed its one command to the
   backend on the default stream and then had a synchronize_stream of the
   default stream return success, in that order, before returning; no batch
   of the default stream is still in flight when it returns.  Stated for SpecDispatch. *)
C6_DispatchSynchronous ==
    [][(/\ \E b \in BufIds, ok, ok2 \in BOOLEAN : KernelDispatch(b, 1, ok, ok2)
        /\ lastReturn'.ok)
       => /\ Len(calls') >= 2
          /\ calls'[1].op = "dispatch"
          /\ calls'[1].stream = DefaultStreamId
          /\ calls'[1].ok
          /\ Len(calls'[1].cmds) = 1
          /\ calls'[2].op = "synchronize_stream"
          /\ calls'[2].stream = DefaultStreamId
          /\ calls'[2].ok
          /\ \A j \in DOMAIN inflight' : inflight'[j].stream # DefaultStreamId]_vars

(* A successful dispatch() returned while the buffer is still held. *)
C6_Witness ==
    /\ lastReturn = Return("dispatch", TRUE)
    /\ Len(calls) = 2
    /\ calls[1].op = "dispatch"
    /\ calls[2].op = "synchronize_stream"
    /\ bufVal[1]

(* C3: no thread resolving the asynchronous artifact gets past the wait, or
   obtains a shader handle for its dispatch / dispatch_async / cache_dir call,
   before the background task has stored its result: a thread woken from the
   wait finds the slot filled, a thread that obtained a handle obtained the
   stored one, and no thread ever unwraps an empty slot.  Stated for SpecShader. *)
C3_NoResolveBeforeStore ==
    \A t \in ThreadIds :
        thr[t].kernel = "Async" =>
            /\ thr[t].pc = "woken" => slot.some
            /\ thr[t].pc = "done" => slot.some /\ slot.ok /\ thr[t].out = slot.handle
            /\ thr[t].pc = "panicked" => thr[t].why # "None"

(* One thread went through the wait and obtained the handle while another
   is woken and about to read. *)
C3_Witness ==
    \E t, u \in ThreadIds :
        /\ thr[t].kernel = "Async" /\ thr[t].pc = "done" /\ bg = "done"
        /\ thr[u].kernel = "Async" /\ thr[u].pc = "woken"

(* C4: the slot of an asynchronous artifact is written exactly once, by the
   one background job, which calls create_shader once; once filled it never
   changes; every thread that resolved the artifact observed the stored
   result.  Stated for SpecShader. *)
C4_SlotWrittenOnce ==
    /\ [](/\ createCalls["Async"] <= 1
          /\ slotWrites <= 1
          /\ slot.some <=> slotWrites = 1
          /\ slot.some => slot = CreateShader(compileOk)
          /\ bg \in {"stored", "done"} => slotWrites = 1
          /\ \A t \in ThreadIds :
                thr[t].kernel = "Async" =>
                    /\ thr[t].pc = "done" => slot.ok /\ thr[t].out = slot.handle
                    /\ thr[t].pc = "panicked" => slot.some /\ ~slot.ok)
    /\ [][slot.some => slot' = slot]_vars

(* The job has finished, and two threads hold the handle it stored. *)
C4_Witness ==
    /\ bg = "done"
    /\ slotWrites = 1
    /\ \A t \in ThreadIds : thr[t].kernel = "Async" /\ thr[t].pc = "done"

(* C7: compilation mode is not observable: for the same backend compile
   outcome, a call on the kernel built in async mode ends as the same call on
   the kernel built in sync mode does: with the same shader handle when the
   compile succeeded, with a failure value handed to the caller (and no
   panic) when it failed.  A failed background compile makes the resolving
   call panic: violated under SpecShader. *)
C7_ModeNotObservable ==
    \A t \in ThreadIds :
        (thr[t].kernel = "Async" /\ thr[t].pc \in {"done", "panicked"}
            /\ syncKernel # "none")
        => IF syncKernel = "created"
           THEN thr[t].pc = "done" /\ thr[t].out = SyncShaderHandle
           ELSE thr[t].pc # "panicked"

(* C8: every failing operation hands a failure value back to its caller and
   does not terminate the program: no factory call panics and no thread
   resolving a kernel panics.  create_buffer on a zero-sized element type
   fails its assert! and panics: violated under SpecFactory. *)
C8_FailureReturnsValue ==
    /\ ~panicked
    /\ \A t \in ThreadIds : thr[t].pc # "panicked"

(* C9: a factory call for which the backend reports an error returns that
   error and has no other effect: no resource or stream handle is built, no
   destroy call is issued, the live handles and the default stream are as
   before; and every destroy call of a resource is for a handle that was
   built.  Stated for SpecFactory. *)
C9_FailedFactoryNoEffect ==
    /\ [](\A i \in DOMAIN calls :
             calls[i].op = "destroy_resource" => res[calls[i].stream].state = "dropped")
    /\ [][(/\ ~panicked
           /\ Len(calls') >= 1
           /\ calls'[1].op \in CreateOps
           /\ ~calls'[1].ok)
          => /\ Len(calls') = 1
             /\ res' = res
             /\ handles' = handles
             /\ streamVal' = streamVal
             /\ destroys' = destroys
             /\ buffers' = buffers
             /\ ~lastReturn'.ok
             /\ ~panicked']_vars

(* The backend rejected a factory call while a resource and a created stream
   were live; both still are. *)
C9_Witness ==
    /\ Len(calls) = 1
    /\ calls[1].op \in CreateOps
    /\ ~calls[1].ok
    /\ ~lastReturn.ok
    /\ \E r \in ResIds : res[r].state = "live"
    /\ \E h \in HandleIds : handles[h].kind = "NonDefault" /\ streamVal[h]

(* C10: create_buffer checks the element size before calling the backend:
   the call on a zero-sized element type (the step that fails the assert)
   issues no backend call and builds no buffer handle.  Stated for SpecFactory. *)
C10_SizeCheckedFirst ==
    [][(~panicked /\ panicked') => (calls' = <<>> /\ res' = res)]_vars

(* The assert failed after a buffer had been created. *)
C10_Witness ==
    /\ panicked
    /\ calls = <<>>
    /\ \E r \in ResIds : res[r].kind = "buffer" /\ res[r].state = "live"

(* C11: each created stream's backend id has received exactly one
   destroy_stream call once the last reference to its StreamHandle is gone,
   and none before; dropping a default-stream wrapper issues none; the
   default stream id has received exactly one destroy_stream call once the
   device handle is torn down, and none before.  Stated for SpecDevice. *)
C11_StreamDestroyedOnce ==
    /\ \A h \in HandleIds :
          handles[h].kind = "NonDefault" =>
              destroys[handles[h].stream] = (IF HandleRc(h) = 0 THEN 1 ELSE 0)
    /\ \A s \in StreamIds \ ({DefaultStreamId} \cup UsedStreams) : destroys[s] = 0
    /\ destroys[DefaultStreamId] = (IF DeviceRc = 0 THEN 1 ELSE 0)

(* Everything was released: a created stream and a default-stream wrapper
   are gone, and so is the device. *)
C11_Witness ==
    /\ DeviceRc = 0
    /\ destroys[DefaultStreamId] = 1
    /\ \E h, g \in HandleIds :
          /\ handles[h].kind = "NonDefault" /\ destroys[handles[h].stream] = 1
          /\ handles[g].kind = "Default" /\ HandleRc(g) = 0

(* C12: no handle outlives its device: once the device handle has been torn
   down (its default stream destroyed) no Device, Stream, open command
   buffer, un-waited sync handle or resource handle exists; every created
   stream was destroyed before; the default stream's destroy is the last call
   of its step and no backend call follows it.  Stated for SpecDevice. *)
C12_NoHandleOutlivesDevice ==
    /\ [](destroys[DefaultStreamId] >= 1 =>
            /\ deviceVals = 0
            /\ \A h \in HandleIds : ~streamVal[h]
            /\ \A c \in CbIds : cmdBufs[c].state # "open"
            /\ \A k \in SyncIds : ~(syncs[k].state = "live" /\ syncs[k].stream # NoStream)
            /\ \A r \in ResIds : res[r].state # "live"
            /\ \A h \in HandleIds :
                  handles[h].kind = "NonDefault" => destroys[handles[h].stream] = 1
            /\ \A i \in DOMAIN calls :
                  (calls[i].op = "destroy_stream" /\ calls[i].stream = DefaultStreamId)
                      => i = Len(calls))
    /\ [][destroys[DefaultStreamId] >= 1 => calls' = <<>>]_vars

(* The drop of the last sync handle waited, destroyed the created stream
   and tore the device down, in that order; a resource had been dropped
   before. *)
C12_Witness ==
    /\ Len(calls) = 3
    /\ calls[1].op = "synchronize_stream"
    /\ calls[2].op = "destroy_stream" /\ calls[2].stream # DefaultStreamId
    /\ calls[3].op = "destroy_stream" /\ calls[3].stream = DefaultStreamId
    /\ \E r \in ResIds : res[r].state = "dropped"

(* C13: for every arity from 0 to 16, encoding a tuple, or the positional
   arguments of dispatch and dispatch_async, appends exactly one record per
   argument, the i-th appended record being the one the i-th argument
   produces; the records the encoder already held stay where they were and
   as they were.  Stated for SpecEncode. *)
C13_RecordsInDeclarationOrder ==
    /\ Len(encoder) = Len(encBase) + Len(args)
    /\ \A i \in 1..Len(encBase) : encoder[i] = encBase[i]
    /\ \A i \in 1..Len(args) :
          encoder[Len(encBase) + i] = EncodeArg(args[i], ArgEncoderNew)[1]

C13_Witness ==
    /\ Len(args) = MaxArity
    /\ encBase # <<>>
    /\ Len(encoder) = Len(encBase) + MaxArity
    /\ encoder[Len(encBase) + MaxArity].id = MaxArity

(* C14: the record of a buffer argument carries the backend id, a byte
   offset and a byte size: (id, 0, len*s) for a whole buffer of len elements
   of size s, and (id, o*s, l*s) for a view of l elements starting at
   element o.  Stated for SpecEncode. *)
C14_BufferRecordInBytes ==
    \A i \in 1..Len(args) :
        args[i].kind \in {"Buffer", "BufferView"} =>
            encoder[Len(encBase) + i] =
                BufferArgument(args[i].id,
                               args[i].offset * args[i].elem,
                               args[i].len * args[i].elem)

(* C19: a Buffer slot and a BufferView slot each accept a Buffer and a
   BufferView; the Tex3dView slot accepts Tex2d, Tex2dView, Tex3d and
   Tex3dView; every kind is accepted by the slot of that same kind; and an
   accepted argument encodes a record of the category of its slot.
   Stated for SpecEncode. *)
C19_AcceptableArguments ==
    /\ \A s \in {"Buffer", "BufferView"}, a \in {"Buffer", "BufferView"} :
          Accepts(s, a)
    /\ \A a \in {"Tex2d", "Tex2dView", "Tex3d", "Tex3dView"} :
          Accepts("Tex3dView", a)
    /\ \A k \in Kinds : Accepts(k, k)
    /\ \A i \in 1..Len(slots) : encoder[i].cat = Category(slots[i])

(* C15: committing a command buffer issues exactly one backend dispatch
   call, on the stream of that buffer and with as many records as the buffer
   holds, zero for an empty buffer; the commit returns what the backend
   answered; a successful commit returns a live SyncHandle on that stream,
   and the wait of such a handle is one synchronize_stream call on the
   stream, after whose success no batch of the stream is left in flight.
   Stated for Spec. *)
DispatchCallsOf(cs) == SelectSeq(cs, LAMBDA x : x.op = "dispatch")
C15_EmptyCommit ==
    [][
       /\ \A c \in CbIds :
              (cmdBufs[c].state = "open" /\ cmdBufs'[c].state = "committed") =>
                  LET h == cmdBufs[c].stream
                      s == handles[h].stream
                      ds == DispatchCallsOf(calls')
                  IN /\ Len(ds) = 1
                     /\ ds[1].stream = s
                     /\ Len(ds[1].cmds) = Len(cmdBufs[c].commands)
                     /\ lastReturn' = Return("commit", ds[1].ok)
                     /\ ds[1].ok => /\ syncs'[c].state = "live"
                                    /\ syncs'[c].stream = h
                                    /\ SyncWaits(syncs'[c])
       /\ \A k \in SyncIds :
              (syncs[k].state = "live" /\ SyncWaits(syncs[k]) /\ syncs'[k] # syncs[k]) =>
                  LET s == handles[syncs[k].stream].stream
                  IN /\ Len(calls') >= 1
                     /\ calls'[1].op = "synchronize_stream"
                     /\ calls'[1].stream = s
                     /\ calls'[1].by = k
                     /\ calls'[1].ok => \A i \in DOMAIN inflight' : inflight'[i].stream # s
    ]_vars

(* An empty batch was committed and accepted, and its SyncHandle was then
   synchronized successfully. *)
C15_Witness ==
    \E k \in SyncIds :
        /\ syncs[k].state = "live" /\ syncs[k].calls = 1 /\ syncs[k].waits = 1
        /\ lastReturn = Return("synchronize", TRUE)
        /\ inflight = <<>>
        /\ \E s \in DOMAIN received :
              /\ received[s] # <<>>
              /\ \A i \in DOMAIN received[s] : received[s][i] = <<>>

(* C16: the callback of a successfully committed batch runs exactly once,
   and only in a step in which the backend completes the batch (a completion
   it reports on its own, or a successful synchronize_stream on the stream);
   from the commit until that step the boxed context holds the committed
   commands unchanged, and that step releases it.  The callback of a
   rejected commit never runs.  Stated for SpecCallback. *)
C16_CallbackOnceAfterCompletion ==
    /\ [](\A k \in CbIds :
            /\ callbacks[k] <= 1
            /\ Accepted(k) => (callbacks[k] = 0 <=> InFlight(k))
            /\ ~Accepted(k) => (callbacks[k] = 0 /\ ~InFlight(k)))
    /\ [][\A k \in CbIds :
            /\ (~Accepted(k) /\ Accepted(k)') =>
                  /\ callbacks'[k] = 0
                  /\ \E i \in DOMAIN inflight' :
                        /\ inflight'[i].by = k
                        /\ inflight'[i].commands = cmdBufs[k].commands
            /\ (InFlight(k) /\ InFlight(k)') =>
                  \E i \in DOMAIN inflight, j \in DOMAIN inflight' :
                        inflight[i].by = k /\ inflight'[j] = inflight[i]
            /\ callbacks'[k] # callbacks[k] =>
                  /\ InFlight(k) /\ ~InFlight(k)'
                  /\ \/ calls' = <<>>
                     \/ \E i \in DOMAIN calls', j \in DOMAIN inflight :
                           /\ inflight[j].by = k
                           /\ calls'[i].op = "synchronize_stream"
                           /\ calls'[i].stream = inflight[j].stream
                           /\ calls'[i].ok
       ]_vars

(* One batch of two commands has completed and its callback has run, while
   another accepted batch is still with the backend, holding its command. *)
C16_Witness ==
    \E k, j \in CbIds :
        /\ callbacks[k] = 1 /\ callbacks[j] = 0
        /\ Len(committed[DefaultStreamId]) >= 3
        /\ \E i \in DOMAIN inflight :
              inflight[i].by = j /\ inflight[i].commands # <<>>

(* C17: the two entry points differ in blocking: a create_kernel call
   returns only after the backend compile has been called and has answered,
   and a create_kernel_async call returns before the backend compile is
   called, leaving it to the background job.  Both entry points pass the
   same build options: violated under SpecCreate. *)
C17_EntryPointsDiffer ==
    /\ created["create_kernel"] \in {"none", "blocking"}
    /\ created["create_kernel_async"] \in {"none", "background"}

(* C18: under fair scheduling every thread that has started to resolve the
   asynchronous artifact leaves the resolve: it is never left holding or
   waiting for the lock, nor parked on the signal, for ever; it comes back
   with the handle unless the compile failed; and a thread that finds the
   slot filled when it holds the lock leaves without parking on the signal.
   Stated for SpecShaderFair. *)
C18_ResolveTerminates ==
    /\ \A t \in ThreadIds :
          (thr[t].kernel = "Async" /\ thr[t].pc \in {"locked", "waiting", "woken"})
              ~> (thr[t].pc \in {"done", "panicked"})
    /\ [](\A t \in ThreadIds : thr[t].pc = "panicked" => ~compileOk)
    /\ [][\A t \in ThreadIds :
            (thr[t].pc = "locked" /\ slot.some) =>
                thr'[t].pc \in {"locked", "done", "panicked"}
       ]_vars

(* Both threads were parked on the signal when the job notified; one has
   been woken, the other is still to take the lock. *)
C18_Witness ==
    /\ bg = "done"
    /\ \E t, u \in ThreadIds :
          /\ thr[t].pc = "woken"
          /\ thr[u].pc = "waiting" /\ u \in notified

(* C20: two Device values are equal exactly when they refer to the same
   backend connection; equality is reflexive, symmetric and transitive; a
   clone equals the value it was cloned from; equal values have equal
   hashes.  Stated for SpecIdentity. *)
C20_DeviceIdentity ==
    LET D == {devices[i] : i \in DOMAIN devices}
    IN /\ \A d, e \in D : DeviceEq(d, e) <=> BackendOf(d) = BackendOf(e)
       /\ \A d \in D : DeviceEq(d, d)
       /\ \A d, e \in D : DeviceEq(d, e) => DeviceEq(e, d)
       /\ \A d, e, f \in D : (DeviceEq(d, e) /\ DeviceEq(e, f)) => DeviceEq(d, f)
       /\ \A d \in D : d.from # 0 => DeviceEq(d, devices[d.from])
       /\ \A d, e \in D : DeviceEq(d, e) => DeviceHash(d) = DeviceHash(e)

(* A device and the clone of its clone, next to a device of another
   connection with the same default stream id and the same hash. *)
C20_Witness ==
    \E i, j, k \in DOMAIN devices :
        /\ devices[j].from = i /\ devices[k].from = j
        /\ DeviceEq(devices[i], devices[k])
        /\ \E n \in DOMAIN devices :
              /\ ~DeviceEq(devices[n], devices[i])
              /\ DeviceHash(devices[n]) = DeviceHash(devices[i])
              /\ deviceHandles[devices[n].inner].default_stream
                    = deviceHandles[devices[i].inner].default_stream

(* C21: once the background compile has stored a failure, no call that
   resolves the artifact (dispatch, dispatch_async, cache_dir) gets past the
   resolve: whether the thread was parked before the store or took the lock
   after it, its read of the slot panics on the stored error; it never comes
   back with a handle or a value, so no dispatch command is built for the
   artifact.  Stated for SpecShader. *)
C21_FailedArtifactAborts ==
    /\ [](\A t \in ThreadIds :
            (thr[t].kernel = "Async" /\ ~compileOk) =>
                /\ thr[t].pc # "done"
                /\ thr[t].out = 0
                /\ thr[t].pc = "panicked" => (thr[t].why = "Err" /\ slot.some /\ ~slot.ok))
    /\ [][\A t \in ThreadIds :
            (slot.some /\ ~slot.ok /\ thr[t].pc \in {"locked", "woken"}
                /\ thr'[t] # thr[t])
            => (thr'[t].pc = "panicked" /\ thr'[t].why = "Err" /\ thr'[t].op = thr[t].op)
       ]_vars

(* A dispatch has panicked on the stored failure while a dispatch_async that
   was parked before the store has been woken and is about to read it. *)
C21_Witness ==
    \E t, u \in ThreadIds :
        /\ slot.some /\ ~slot.ok
        /\ thr[t].pc = "panicked" /\ thr[t].why = "Err" /\ thr[t].op = "dispatch"
        /\ thr[u].pc = "woken" /\ thr[u].op = "dispatch_async"

(* C22: a default stream and a created stream differ only in what their
   drop does: every operation of Stream completes on either and uses the
   backend id of the stream; in particular native_handle returns on a default
   stream as it does on a created one.  Stream::native_handle is unfinished
   for the default stream: violated under SpecStream. *)
C22_DefaultLikeOwned ==
    [][/\ \A h \in HandleIds :
            StreamNativeHandle(h) =>
                (~panicked' /\ lastReturn' = Return("native_handle", TRUE))
       /\ \A h \in HandleIds, ok \in BOOLEAN :
            StreamSynchronize(h, ok) =>
                calls' = <<Call("synchronize_stream", handles[h].stream, <<>>, ok, 0)>>
       /\ ~panicked => ~panicked'
    ]_vars

(* C23: a created stream is not destroyed while a CommandBuffer bound to it
   is open or a SyncHandle on it has not yet waited, even when the caller
   holds no Stream value of it any more; within a step the destroy of a
   stream comes after every other call on it, and once a stream has been
   destroyed no call names it again.  Stated for Spec. *)
C23_NoDestroyWhileAwaited ==
    /\ [](\A h \in HandleIds :
            (handles[h].kind = "NonDefault"
                /\ (\/ \E c \in CbIds : cmdBufs[c].state = "open" /\ cmdBufs[c].stream = h
                    \/ \E k \in SyncIds : syncs[k].state = "live" /\ syncs[k].stream = h))
            => destroys[handles[h].stream] = 0)
    /\ [](\A i, j \in DOMAIN calls :
            (i < j /\ calls[i].op = "destroy_stream") => calls[j].stream # calls[i].stream)
    /\ [][\A s \in StreamIds \ {DefaultStreamId} :
            destroys[s] >= 1 => \A i \in DOMAIN calls' : calls'[i].stream # s]_vars

(* The caller has dropped the Stream value of a created stream while the
   SyncHandle of a batch committed on it has not waited yet, and the stream
   is not destroyed. *)
C23_Witness ==
    \E h \in HandleIds, k \in SyncIds :
        /\ handles[h].kind = "NonDefault"
        /\ ~streamVal[h]
        /\ syncs[k].state = "live" /\ syncs[k].stream = h /\ syncs[k].waits = 0
        /\ destroys[handles[h].stream] = 0

(* C24: when the backend rejects the dispatch call of a commit, the call
   (commit, submit_and_sync, dispatch) returns the error, no SyncHandle is
   made and no synchronize_stream call is issued; and the boxed context with
   the commands and the callback is released at some later point.  Nothing
   frees the box of a rejected call: violated under SpecReject. *)
C24_RejectedCommitReleases ==
    /\ [][(DispatchCallsOf(calls') # <<>> /\ ~DispatchCallsOf(calls')[1].ok) =>
            /\ ~lastReturn'.ok
            /\ syncs' = syncs
            /\ \A i \in DOMAIN calls' : calls'[i].op # "synchronize_stream"
       ]_vars
    /\ (leaked # {}) ~> (leaked = {})

(* C25: the argument records a dispatch command points to are alive
   whenever the command is handed to the backend, and the records of a
   command returned by dispatch_async stay alive while the caller holds it.
   The encoder of dispatch_async is a local dropped at return: violated
   under SpecArgs. *)
C25_ArgsAliveAtHandOff ==
    /\ \A i \in DOMAIN backendRead :
          backendRead[i].alive /\ backendRead[i].read.kind = "records"
    /\ \A i \in DOMAIN held : ArgsAlive(heap, held[i])

=============================================================================
